---- MODULE Spec2Model ----
(***************************************************************************)
(* Payment reconciliation of shop-mvp: payments/views.py (start_payment,   *)
(* zarinpal_callback and their helpers) over the Order rows of             *)
(* orders/models.py and the PaymentAttempt ledger of payments/models.py.   *)
(*                                                                         *)
(* Every request handler runs in its own worker.  A worker is at one of    *)
(* the places where the code can be overtaken by another worker: waiting   *)
(* for the row lock of select_for_update(), or waiting for the gateway.    *)
(* A transaction.atomic() block that makes no outbound call is one step:   *)
(* the row lock keeps other writers out and readers see committed rows.    *)
(***************************************************************************)
EXTENDS Integers, Sequences, FiniteSets, TLC

\* ---------------------------------------------------------------- bounds
NumProcs == 2
NumOrders == 2
MaxCalls == 3

Procs == 1..NumProcs
Orders == 1..NumOrders
\* an order id that names no row (get_object_or_404)
NoSuchOrder == 0
\* lock[o] of a row nobody has locked
Free == 0

\* ------------------------------------------------------- program values
LOCK_SENTINEL == "__LOCK__"
PAYMENTS_PROVIDER == "zarinpal"
PENDING_PAYMENT == "PENDING_PAYMENT"
PAID == "PAID"

\* Optional[T]: None is the empty sequence, a value v is <<v>>
None == <<>>
Some(v) == <<v>>

\* authorities the gateway issues, in the order it issues them
AuthoritySeq == <<"A1", "A2">>
Authorities == {AuthoritySeq[i] : i \in 1..Len(AuthoritySeq)}
\* settlement references the gateway issues
RefIds == {7001, 7002}
\* gateway codes other than success: -12 is the rate limit of the request,
\* -51 a failed verification
RequestFailCodes == {-12}
VerifyFailCodes == {-51}

VARIABLES orders, attempts, lock, pc, loc, last, merchant_id, calls, issued,
          gwRequests, gwVerifies, payload

vars == <<orders, attempts, lock, pc, loc, last, merchant_id, calls, issued,
          gwRequests, gwVerifies, payload>>

\* ------------------------------------------------------------- Order row
NewOrder ==
    [status |-> PENDING_PAYMENT, paid_at |-> None, payment_provider |-> "",
     payment_session_id |-> "", payment_ref_id |-> None]

\* ------------------------------------------------------ gateway responses
\* The body of a gateway response as resp.json() returns it.  isdict is
\* FALSE for a JSON value that is not an object.  data is None or a dict
\* with code, authority and ref_id; errors is a dict, a list whose first
\* element is a dict, or anything else.
NoData == None
NoErrors == [kind |-> "none", code |-> None]
Body(isdict, data, errors) == [isdict |-> isdict, data |-> data, errors |-> errors]
DataDict(code, authority, ref_id) ==
    Some([code |-> code, authority |-> authority, ref_id |-> ref_id])
ErrDict(code) == [kind |-> "dict", code |-> code]
ErrList(code) == [kind |-> "list", code |-> code]
NotADict == Body(FALSE, NoData, NoErrors)

\* what the payment-request endpoint may answer when it would issue fresh
RequestBodies(fresh) ==
    {Body(TRUE, DataDict(Some(100), a, None), NoErrors) : a \in fresh \cup {""}}
    \cup {Body(TRUE, NoData, ErrDict(Some(c))) : c \in RequestFailCodes}
    \cup {Body(TRUE, NoData, ErrList(Some(c))) : c \in RequestFailCodes}
    \cup {Body(TRUE, NoData, ErrDict(None)), Body(TRUE, NoData, NoErrors), NotADict}

\* what the payment-verify endpoint may answer
VerifyBodies ==
    {Body(TRUE, DataDict(Some(c), "", r), NoErrors) :
        c \in {100, 101}, r \in {Some(x) : x \in RefIds} \cup {None}}
    \cup {Body(TRUE, NoData, ErrDict(Some(c))) : c \in VerifyFailCodes}
    \cup {Body(TRUE, NoData, ErrList(Some(c))) : c \in VerifyFailCodes}
    \cup {Body(TRUE, NoData, NoErrors), NotADict}

\* how the HTTP exchange ends: a JSON body, an exception of requests.post,
\* or a body that is not JSON
Transports == {"json", "exception", "nonjson"}
\* the bodies that can come with a transport: none when it fails
BodiesOf(transport, bodies) == IF transport = "json" THEN bodies ELSE {NotADict}

_post_json(transport, body) ==
    CASE transport = "exception" -> Body(TRUE, NoData, ErrDict(Some(-998)))
      [] transport = "nonjson" -> Body(TRUE, NoData, ErrDict(Some(-999)))
      [] OTHER -> body

\* raw.get(...) raises AttributeError when raw is not a dict
Raises(raw) == ~raw.isdict

_extract_code(raw) ==
    IF raw.data # None /\ raw.data[1].code # None THEN raw.data[1].code
    ELSE IF raw.errors.kind = "dict" THEN raw.errors.code
    ELSE IF raw.errors.kind = "list" THEN raw.errors.code
    ELSE None

_extract_authority(raw) ==
    IF raw.data # None THEN raw.data[1].authority ELSE ""

_extract_ref_id(raw) ==
    IF raw.data # None THEN raw.data[1].ref_id ELSE None

\* --------------------------------------------------------------- ledger
Attempt(o, stage, code, authority, ref_id) ==
    [order |-> o, stage |-> stage, code |-> code, authority |-> authority,
     ref_id |-> ref_id]

\* ------------------------------------------------------------- responses
\* an HTTP response: status, what a redirect leads to ("order", "startpay",
\* "products"), the authority of a startpay URL, and the branch that
\* produced it
Response(http, to, tok, br) == [http |-> http, to |-> to, tok |-> tok, br |-> br]
NoResponse == Response(0, "", "", "")
\* the locals of a handler: the view it runs, its order, the authority and
\* status it works with, and the code and ref_id the gateway answered; hint
\* is the order named by a further query parameter of the request, which no
\* handler reads
NoLocals == [view |-> "", order |-> NoSuchOrder, hint |-> NoSuchOrder,
             authority |-> "", status |-> "", code |-> None, ref_id |-> None]
\* the handler that returned last: its locals at the return, its response
NoReturn == [locals |-> NoLocals, resp |-> NoResponse]

\* ------------------------------------------------ amount for the gateway
MaxAmount == 40
\* values of settings.ZARINPAL_CURRENCY; None when the setting is absent
CurrencySettings == {None, Some(""), Some("IRR"), Some("IRT"), Some("irt"), Some(" irt "), Some("USD")}

\* str(getattr(settings, "ZARINPAL_CURRENCY", "IRR") or "IRR").upper().strip()
_gateway_currency(setting) ==
    IF setting = None \/ setting = Some("") THEN "IRR"
    ELSE IF setting \in {Some("IRT"), Some("irt"), Some(" irt ")} THEN "IRT"
    ELSE setting[1]

\* the amount without the + 9 of line 41: floor division
_amount_for_gateway_Floor(amount_irr, setting) ==
    IF _gateway_currency(setting) = "IRT" THEN amount_irr \div 10 ELSE amount_irr

\* int(amount_irr or 0), then (amount_irr + 9) // 10 for IRT
_amount_for_gateway(amount_irr, setting) ==
    IF _gateway_currency(setting) = "IRT" THEN (amount_irr + 9) \div 10 ELSE amount_irr

\* the amount and currency of a gateway payload: the currency setting and
\* the total of the order they are computed from, and the two results
NoPayload == [setting |-> None, total_irr |-> 0, currency |-> "", amount |-> None]

Init ==
    /\ orders = [o \in Orders |-> NewOrder]
    /\ attempts = <<>>
    /\ lock = [o \in Orders |-> Free]
    /\ pc = [p \in Procs |-> "idle"]
    /\ loc = [p \in Procs |-> NoLocals]
    /\ last = NoReturn
    /\ merchant_id \in BOOLEAN
    /\ calls = 0
    /\ issued = 0
    /\ gwRequests = [o \in Orders |-> 0]
    /\ gwVerifies = [o \in Orders |-> 0]
    /\ payload = NoPayload

\* ------------------------------------------------------------ helpers
\* (request.GET.get("Status") or "").strip().upper()
Upper(s) == IF s = "ok" THEN "OK" ELSE IF s = "nok" THEN "NOK" ELSE s

\* f"{startpay}{authority}": the redirect is determined by the authority
_startpay_url(authority) == Response(302, "startpay", authority, "")

\* indices of the REQUEST attempts that carry this authority
RequestAttempts(authority) ==
    {i \in 1..Len(attempts) :
        attempts[i].stage = "REQUEST" /\ attempts[i].authority = authority}

\* orders whose current payment_session_id is this authority
OrdersWithSession(authority) ==
    {o \in Orders : orders[o].payment_session_id = authority}

Max(S) == CHOOSE x \in S : \A y \in S : y <= x

\* The order a callback resolves to, NoSuchOrder when there is none: the
\* order of the REQUEST attempt with the greatest id, else the order created
\* last among those holding the authority (orders are numbered by creation).
ResolveOrder(authority) ==
    IF RequestAttempts(authority) # {}
    THEN attempts[Max(RequestAttempts(authority))].order
    ELSE IF OrdersWithSession(authority) # {}
    THEN Max(OrdersWithSession(authority))
    ELSE NoSuchOrder

\* worker p leaves its handler with locals l and response r
Return(p, l, r) ==
    /\ pc' = [pc EXCEPT ![p] = "idle"]
    /\ loc' = [loc EXCEPT ![p] = NoLocals]
    /\ last' = [locals |-> l, resp |-> r]

\* ------------------------------------------------------ start_payment
\* POST /payments/start/<uuid>/ arrives at worker p
StartInvoke(p, oid) ==
    /\ pc[p] = "idle"
    /\ calls < MaxCalls
    /\ calls' = calls + 1
    /\ pc' = [pc EXCEPT ![p] = "start_wait"]
    /\ loc' = [loc EXCEPT ![p] = [NoLocals EXCEPT !.view = "start_payment", !.order = oid]]
    /\ UNCHANGED <<orders, attempts, lock, last, merchant_id, issued, gwRequests, gwVerifies, payload>>

\* get_object_or_404 finds no row
StartNotFound(p) ==
    /\ pc[p] = "start_wait"
    /\ loc[p].order = NoSuchOrder
    /\ Return(p, loc[p], Response(404, "", "", "not_found"))
    /\ UNCHANGED <<orders, attempts, lock, merchant_id, calls, issued, gwRequests, gwVerifies, payload>>

\* the worker holds the row lock of its order for the length of the step
StartLocked(p) ==
    /\ pc[p] = "start_wait"
    /\ loc[p].order \in Orders
    /\ lock[loc[p].order] = Free

\* the redirect of lines 194-198 with the token reset on the way
StartNotPending_ClearsToken(p) ==
    /\ StartLocked(p)
    /\ orders[loc[p].order].status # PENDING_PAYMENT
    /\ orders' = [orders EXCEPT ![loc[p].order].payment_session_id = ""]
    /\ Return(p, loc[p], Response(302, "order", "", "not_pending"))
    /\ UNCHANGED <<attempts, lock, merchant_id, calls, issued, gwRequests, gwVerifies, payload>>

\* status PAID, or any status other than PENDING_PAYMENT: to the order view
StartNotPending(p) ==
    /\ StartLocked(p)
    /\ orders[loc[p].order].status # PENDING_PAYMENT
    /\ Return(p, loc[p], Response(302, "order", "", "not_pending"))
    /\ UNCHANGED <<orders, attempts, lock, merchant_id, calls, issued, gwRequests, gwVerifies, payload>>

\* start_payment without the reuse of lines 203-204: a real token is
\* replaced by the sentinel and a new request goes out
StartReuseAuthority_Requests(p) ==
    LET existing == orders[loc[p].order].payment_session_id IN
    /\ StartLocked(p)
    /\ orders[loc[p].order].status = PENDING_PAYMENT
    /\ existing # "" /\ existing # LOCK_SENTINEL
    /\ merchant_id
    /\ orders' = [orders EXCEPT ![loc[p].order].payment_session_id = LOCK_SENTINEL]
    /\ pc' = [pc EXCEPT ![p] = "requesting"]
    /\ gwRequests' = [gwRequests EXCEPT ![loc[p].order] = @ + 1]
    /\ UNCHANGED <<attempts, lock, loc, last, merchant_id, calls, issued, gwVerifies, payload>>

\* already has authority -> go to startpay
StartReuseAuthority(p) ==
    LET existing == orders[loc[p].order].payment_session_id IN
    /\ StartLocked(p)
    /\ orders[loc[p].order].status = PENDING_PAYMENT
    /\ existing # "" /\ existing # LOCK_SENTINEL
    /\ Return(p, loc[p], [_startpay_url(existing) EXCEPT !.br = "reuse"])
    /\ UNCHANGED <<orders, attempts, lock, merchant_id, calls, issued, gwRequests, gwVerifies, payload>>

\* start_payment without the test of lines 207-211: the sentinel of another
\* request is overwritten and a request goes out
StartInProgress_Requests(p) ==
    /\ StartLocked(p)
    /\ orders[loc[p].order].status = PENDING_PAYMENT
    /\ orders[loc[p].order].payment_session_id = LOCK_SENTINEL
    /\ merchant_id
    /\ pc' = [pc EXCEPT ![p] = "requesting"]
    /\ gwRequests' = [gwRequests EXCEPT ![loc[p].order] = @ + 1]
    /\ UNCHANGED <<orders, attempts, lock, loc, last, merchant_id, calls, issued, gwVerifies, payload>>

\* another request is currently in progress
StartInProgress(p) ==
    /\ StartLocked(p)
    /\ orders[loc[p].order].status = PENDING_PAYMENT
    /\ orders[loc[p].order].payment_session_id = LOCK_SENTINEL
    /\ Return(p, loc[p], Response(429, "", "", "in_progress"))
    /\ UNCHANGED <<orders, attempts, lock, merchant_id, calls, issued, gwRequests, gwVerifies, payload>>

\* the first transaction without its sentinel: only the provider is saved
WriteSentinel_NoSentinel(row) ==
    [row EXCEPT !.payment_provider = PAYMENTS_PROVIDER]

\* the two saves of the first transaction
WriteSentinel(row) ==
    [row EXCEPT !.payment_session_id = LOCK_SENTINEL,
                !.payment_provider = PAYMENTS_PROVIDER]
ClearSentinel(row) == [row EXCEPT !.payment_session_id = ""]

\* the abort on a missing merchant id without the reset of lines 220-221
StartMisconfigured_KeepsSentinel(p) ==
    LET o == loc[p].order IN
    /\ StartLocked(p)
    /\ orders[o].status = PENDING_PAYMENT
    /\ orders[o].payment_session_id = ""
    /\ ~merchant_id
    /\ orders' = [orders EXCEPT ![o] = WriteSentinel(orders[o])]
    /\ Return(p, loc[p], Response(500, "", "", "misconfigured"))
    /\ UNCHANGED <<attempts, lock, merchant_id, calls, issued, gwRequests, gwVerifies, payload>>

\* the sentinel is written and cleared again in the one transaction
StartMisconfigured(p) ==
    LET o == loc[p].order IN
    /\ StartLocked(p)
    /\ orders[o].status = PENDING_PAYMENT
    /\ orders[o].payment_session_id = ""
    /\ ~merchant_id
    /\ orders' = [orders EXCEPT ![o] = ClearSentinel(WriteSentinel(orders[o]))]
    /\ Return(p, loc[p], Response(500, "", "", "misconfigured"))
    /\ UNCHANGED <<attempts, lock, merchant_id, calls, issued, gwRequests, gwVerifies, payload>>

\* the sentinel is committed and the gateway request goes out
StartWriteSentinel(p) ==
    LET o == loc[p].order IN
    /\ StartLocked(p)
    /\ orders[o].status = PENDING_PAYMENT
    /\ orders[o].payment_session_id = ""
    /\ merchant_id
    /\ orders' = [orders EXCEPT ![o] = WriteSentinel(orders[o])]
    /\ pc' = [pc EXCEPT ![p] = "requesting"]
    /\ gwRequests' = [gwRequests EXCEPT ![o] = @ + 1]
    /\ UNCHANGED <<attempts, lock, loc, last, merchant_id, calls, issued, gwVerifies, payload>>

\* authorities the gateway can still hand out
Fresh == IF issued < Len(AuthoritySeq) THEN {AuthoritySeq[issued + 1]} ELSE {}

\* _post_json returns and code and authority are extracted; a body that is
\* not a JSON object makes raw.get raise and the handler dies with the
\* sentinel committed
StartGatewayReturn(p, transport, body) ==
    LET raw == _post_json(transport, body) IN
    /\ pc[p] = "requesting"
    /\ IF Raises(raw)
       THEN /\ Return(p, loc[p], Response(500, "", "", "exception"))
            /\ UNCHANGED issued
       ELSE /\ pc' = [pc EXCEPT ![p] = "saving"]
            /\ loc' = [loc EXCEPT ![p].code = _extract_code(raw),
                                  ![p].authority = _extract_authority(raw)]
            /\ issued' = IF _extract_authority(raw) \in Fresh THEN issued + 1 ELSE issued
            /\ UNCHANGED last
    /\ UNCHANGED <<orders, attempts, lock, merchant_id, calls, gwRequests, gwVerifies, payload>>

\* the outcome of the third step for the row
SaveOutcome(row, code, authority) ==
    IF code = Some(100) /\ authority # ""
    THEN [row EXCEPT !.payment_session_id = authority]
    ELSE [row EXCEPT !.payment_session_id = ""]

\* 3) Save outcome.  A PaymentAttempt insert that fails inside the atomic
\* block is swallowed by _attempt_create but marks the transaction for
\* rollback: the save that follows raises and nothing is committed.
StartSaveOutcome(p, ledgerOk) ==
    LET o == loc[p].order
        code == loc[p].code
        authority == loc[p].authority IN
    /\ pc[p] = "saving"
    /\ lock[o] = Free
    /\ IF ~ledgerOk
       THEN /\ Return(p, loc[p], Response(500, "", "", "exception"))
            /\ UNCHANGED <<orders, attempts>>
       ELSE /\ attempts' = Append(attempts, Attempt(o, "REQUEST", code, authority, None))
            /\ orders' = [orders EXCEPT ![o] = SaveOutcome(orders[o], code, authority)]
            /\ Return(p, loc[p],
                         IF code = Some(100) /\ authority # ""
                         THEN [_startpay_url(authority) EXCEPT !.br = "started"]
                         ELSE IF code = Some(-12)
                         THEN Response(429, "", "", "too_many")
                         ELSE Response(400, "", "", "failed"))
    /\ UNCHANGED <<lock, merchant_id, calls, issued, gwRequests, gwVerifies, payload>>

\* -------------------------------------------------- zarinpal_callback
\* GET /payments/zarinpal/callback/?Authority=...&Status=... arrives at
\* worker p.  The order is looked up and tested for PAID without a lock.
CallbackArrives(p) ==
    /\ pc[p] = "idle"
    /\ calls < MaxCalls
    /\ calls' = calls + 1

CallbackLocals(authority, status, hint, o) ==
    [NoLocals EXCEPT !.view = "zarinpal_callback", !.order = o, !.hint = hint,
                     !.authority = authority, !.status = Upper(status)]

CallbackMissingAuthority(p, authority, status, hint) ==
    /\ CallbackArrives(p)
    /\ authority = ""
    /\ Return(p, CallbackLocals(authority, status, hint, NoSuchOrder),
              Response(400, "", "", "missing_authority"))
    /\ UNCHANGED <<orders, attempts, lock, merchant_id, issued, gwRequests, gwVerifies, payload>>

\* the callback without the test of lines 286-287: order.status of None raises
CallbackUnresolved_Raises(p, authority, status, hint) ==
    /\ CallbackArrives(p)
    /\ authority # ""
    /\ ResolveOrder(authority) = NoSuchOrder
    /\ Return(p, CallbackLocals(authority, status, hint, NoSuchOrder),
              Response(500, "", "", "exception"))
    /\ UNCHANGED <<orders, attempts, lock, merchant_id, issued, gwRequests, gwVerifies, payload>>

CallbackUnresolved(p, authority, status, hint) ==
    /\ CallbackArrives(p)
    /\ authority # ""
    /\ ResolveOrder(authority) = NoSuchOrder
    /\ Return(p, CallbackLocals(authority, status, hint, NoSuchOrder),
              Response(302, "products", "", "unresolved"))
    /\ UNCHANGED <<orders, attempts, lock, merchant_id, issued, gwRequests, gwVerifies, payload>>

CallbackAlreadyPaid(p, authority, status, hint) ==
    LET o == ResolveOrder(authority) IN
    /\ CallbackArrives(p)
    /\ authority # ""
    /\ o # NoSuchOrder
    /\ orders[o].status = PAID
    /\ Return(p, CallbackLocals(authority, status, hint, o),
              Response(302, "order", "", "paid"))
    /\ UNCHANGED <<orders, attempts, lock, merchant_id, issued, gwRequests, gwVerifies, payload>>

\* Cancel / NOK: the worker goes on to lock the row
CallbackNok(p, authority, status, hint) ==
    LET o == ResolveOrder(authority) IN
    /\ CallbackArrives(p)
    /\ authority # ""
    /\ o # NoSuchOrder
    /\ orders[o].status # PAID
    /\ Upper(status) # "OK"
    /\ loc' = [loc EXCEPT ![p] = CallbackLocals(authority, status, hint, o)]
    /\ pc' = [pc EXCEPT ![p] = "cancel_wait"]
    /\ UNCHANGED <<orders, attempts, lock, last, merchant_id, issued, gwRequests, gwVerifies, payload>>

CallbackMisconfigured(p, authority, status, hint) ==
    LET o == ResolveOrder(authority) IN
    /\ CallbackArrives(p)
    /\ authority # ""
    /\ o # NoSuchOrder
    /\ orders[o].status # PAID
    /\ Upper(status) = "OK"
    /\ ~merchant_id
    /\ Return(p, CallbackLocals(authority, status, hint, o),
              Response(500, "", "", "misconfigured"))
    /\ UNCHANGED <<orders, attempts, lock, merchant_id, issued, gwRequests, gwVerifies, payload>>

\* the verify path without the test for PAID of lines 289-290
CallbackOk_NoPaidCheck(p, authority, status, hint) ==
    LET o == ResolveOrder(authority) IN
    /\ CallbackArrives(p)
    /\ authority # ""
    /\ o # NoSuchOrder
    /\ Upper(status) = "OK"
    /\ merchant_id
    /\ loc' = [loc EXCEPT ![p] = CallbackLocals(authority, status, hint, o)]
    /\ pc' = [pc EXCEPT ![p] = "verify_wait"]
    /\ UNCHANGED <<orders, attempts, lock, last, merchant_id, issued, gwRequests, gwVerifies, payload>>

\* Verify: the worker goes on to lock the row
CallbackOk(p, authority, status, hint) ==
    LET o == ResolveOrder(authority) IN
    /\ CallbackArrives(p)
    /\ authority # ""
    /\ o # NoSuchOrder
    /\ orders[o].status # PAID
    /\ Upper(status) = "OK"
    /\ merchant_id
    /\ loc' = [loc EXCEPT ![p] = CallbackLocals(authority, status, hint, o)]
    /\ pc' = [pc EXCEPT ![p] = "verify_wait"]
    /\ UNCHANGED <<orders, attempts, lock, last, merchant_id, issued, gwRequests, gwVerifies, payload>>

\* a cancel that keeps the token
CancelSession_KeepsToken(row) == row

\* the row the cancel transaction, and a failed verify, save
CancelSession(row) == [row EXCEPT !.payment_session_id = ""]

\* The cancel transaction: the row is read again under the lock, the token
\* is cleared and a CANCEL attempt is written.  An insert that fails marks
\* the transaction for rollback, so the cleared token is not committed.
CallbackCancel(p, ledgerOk) ==
    LET o == loc[p].order IN
    /\ pc[p] = "cancel_wait"
    /\ lock[o] = Free
    /\ IF ledgerOk
       THEN /\ orders' = [orders EXCEPT ![o] = CancelSession(orders[o])]
            /\ attempts' = Append(attempts, Attempt(o, "CANCEL", Some(0), loc[p].authority, None))
            /\ Return(p, loc[p], Response(302, "order", "", "cancelled"))
       ELSE /\ UNCHANGED <<orders, attempts>>
            /\ Return(p, loc[p], Response(302, "order", "", "cancel_rolled_back"))
    /\ UNCHANGED <<lock, merchant_id, calls, issued, gwRequests, gwVerifies, payload>>

\* The verify transaction opens: the row is locked and the gateway verify
\* call goes out inside the transaction.
CallbackVerifyLock(p) ==
    LET o == loc[p].order IN
    /\ pc[p] = "verify_wait"
    /\ lock[o] = Free
    /\ lock' = [lock EXCEPT ![o] = p]
    /\ pc' = [pc EXCEPT ![p] = "verifying"]
    /\ gwVerifies' = [gwVerifies EXCEPT ![o] = @ + 1]
    /\ UNCHANGED <<orders, attempts, loc, last, merchant_id, calls, issued, gwRequests, payload>>

\* the row a successful verify saves
MarkPaid(row, authority, ref_id) ==
    [row EXCEPT !.status = PAID, !.payment_session_id = authority,
                !.payment_ref_id = ref_id]

\* The gateway answers and the transaction ends, releasing the lock.
\* It is rolled back when raw is not a dict (raw.get raises), when the
\* PaymentAttempt insert failed (the next save raises), and when the code
\* is 100 or 101 without a ref_id: payment_ref_id = "" is not a number and
\* saving the BigIntegerField raises.
CallbackVerifyReturn(p, transport, body, ledgerOk) ==
    LET o == loc[p].order
        authority == loc[p].authority
        raw == _post_json(transport, body)
        code == _extract_code(raw)
        ref_id == _extract_ref_id(raw)
        done == [loc[p] EXCEPT !.code = code, !.ref_id = ref_id] IN
    /\ pc[p] = "verifying"
    /\ lock[o] = p
    /\ lock' = [lock EXCEPT ![o] = Free]
    /\ IF Raises(raw)
       THEN /\ Return(p, loc[p], Response(500, "", "", "exception"))
            /\ UNCHANGED <<orders, attempts>>
       ELSE IF ~ledgerOk \/ (code \in {Some(100), Some(101)} /\ ref_id = None)
       THEN /\ Return(p, done, Response(500, "", "", "exception"))
            /\ UNCHANGED <<orders, attempts>>
       ELSE /\ attempts' = Append(attempts, Attempt(o, "VERIFY", code, authority, ref_id))
            /\ IF code \in {Some(100), Some(101)}
               THEN /\ orders' = [orders EXCEPT ![o] = MarkPaid(orders[o], authority, ref_id)]
                    /\ Return(p, done, Response(302, "order", "", "verified"))
               ELSE /\ orders' = [orders EXCEPT ![o] = CancelSession(orders[o])]
                    /\ Return(p, done, Response(302, "order", "", "verify_failed"))
    /\ UNCHANGED <<merchant_id, calls, issued, gwRequests, gwVerifies, payload>>

\* ---------------------------------------------------------- settings
\* settings.ZARINPAL_MERCHANT_ID is read anew by every handler; a deployment
\* sets it or empties it while orders and attempts stay in the database
Reconfigure ==
    /\ merchant_id' = ~merchant_id
    /\ UNCHANGED <<orders, attempts, lock, pc, loc, last, calls, issued, gwRequests, gwVerifies, payload>>

\* ------------------------------------------------------- specification
OrderIds == Orders \cup {NoSuchOrder}
AuthorityParams == Authorities \cup {LOCK_SENTINEL, ""}
StatusParams == {"OK", "ok", "NOK"}
\* an order hint in the query string: none, or the id of an order
HintParams == OrderIds

StartNext ==
    \E p \in Procs :
        \/ \E oid \in OrderIds : StartInvoke(p, oid)
        \/ StartNotFound(p)
        \/ StartNotPending(p)
        \/ StartReuseAuthority(p)
        \/ StartInProgress(p)
        \/ StartMisconfigured(p)
        \/ StartWriteSentinel(p)
        \/ \E t \in Transports : \E b \in BodiesOf(t, RequestBodies(Fresh)) :
              StartGatewayReturn(p, t, b)
        \/ \E ok \in BOOLEAN : StartSaveOutcome(p, ok)

CallbackNext ==
    \E p \in Procs :
        \/ \E a \in AuthorityParams, s \in StatusParams, h \in HintParams :
              \/ CallbackMissingAuthority(p, a, s, h)
              \/ CallbackUnresolved(p, a, s, h)
              \/ CallbackAlreadyPaid(p, a, s, h)
              \/ CallbackNok(p, a, s, h)
              \/ CallbackMisconfigured(p, a, s, h)
              \/ CallbackOk(p, a, s, h)
        \/ \E ok \in BOOLEAN : CallbackCancel(p, ok)
        \/ CallbackVerifyLock(p)
        \/ \E t \in Transports, ok \in BOOLEAN : \E b \in BodiesOf(t, VerifyBodies) :
              CallbackVerifyReturn(p, t, b, ok)

Next == StartNext \/ CallbackNext \/ Reconfigure

Spec == Init /\ [][Next]_vars

\* Two (NumProcs) initiate calls that arrive together for one order that
\* awaits payment with an empty token, and nothing else: every worker has
\* entered start_payment and none has taken the row lock yet.
InitInitiate ==
    /\ orders = [o \in Orders |-> NewOrder]
    /\ attempts = <<>>
    /\ lock = [o \in Orders |-> Free]
    /\ pc = [p \in Procs |-> "start_wait"]
    /\ \E o \in Orders :
          loc = [p \in Procs |-> [NoLocals EXCEPT !.view = "start_payment", !.order = o]]
    /\ last = NoReturn
    /\ merchant_id \in BOOLEAN
    /\ calls = NumProcs
    /\ issued = 0
    /\ gwRequests = [o \in Orders |-> 0]
    /\ gwVerifies = [o \in Orders |-> 0]
    /\ payload = NoPayload

InitiateNext ==
    \E p \in Procs :
        \/ StartReuseAuthority(p)
        \/ StartInProgress(p)
        \/ StartMisconfigured(p)
        \/ StartWriteSentinel(p)
        \/ \E t \in Transports : \E b \in BodiesOf(t, RequestBodies(Fresh)) :
              StartGatewayReturn(p, t, b)
        \/ \E ok \in BOOLEAN : StartSaveOutcome(p, ok)

SpecInitiate == InitInitiate /\ [][InitiateNext]_vars

\* ---------------------------------------------------------------------
\* Properties
\* ---------------------------------------------------------------------
\* the workers whose start_payment is between committing the sentinel of
\* order o and saving the outcome of its gateway request
InFlight(o) ==
    {p \in Procs : pc[p] \in {"requesting", "saving"} /\ loc[p].order = o}

RealToken(t) == t # "" /\ t # LOCK_SENTINEL

\* C1: for every order, at most one start_payment is between writing the
\* sentinel and saving its outcome, whatever callbacks the order received.
C1_OneRequestInFlight ==
    \A o \in Orders : Cardinality(InFlight(o)) <= 1

VerifySuccesses(o) ==
    {i \in 1..Len(attempts) :
        /\ attempts[i].order = o
        /\ attempts[i].stage = "VERIFY"
        /\ attempts[i].code \in {Some(100), Some(101)}}

\* a step in which a callback arrives and returns at once: only a callback
\* raises calls without moving a worker
CallbackReturnsAtOnce ==
    /\ calls' = calls + 1
    /\ pc' = pc
    /\ last'.locals.view = "zarinpal_callback"

\* C3: a success callback that comes to take the row lock of an order that
\* is PAID by then is a no-op: from there to its return it makes no gateway
\* verify call and writes nothing to the order.
C3_SecondVerifyIsNoOp ==
    [][\A p \in Procs :
        (/\ pc[p] \in {"verify_wait", "verifying"}
         /\ pc'[p] # pc[p]
         /\ orders[loc[p].order].status = PAID)
            => /\ gwVerifies' = gwVerifies
               /\ orders' = orders]_vars

\* C4: every order with status PAID has a payment reference and a paid_at.
C4_PaidHasRefAndPaidAt ==
    \A o \in Orders :
        orders[o].status = PAID
            => /\ orders[o].payment_ref_id # None
               /\ orders[o].paid_at # None

\* C5: for every order the ledger holds at most one VERIFY attempt with a
\* code the verify step accepts (100 or 101).
C5_OneVerifySuccess ==
    \A o \in Orders : Cardinality(VerifySuccesses(o)) <= 1

\* C6: when the verify call of a success callback returns for an order that
\* awaits payment: with code 100 or 101 the order is PAID, has a paid_at, the
\* reference the gateway gave and the callback's authority as its token;
\* with any other outcome the order still awaits payment with an empty token.
C6_VerifyOutcome ==
    [][\A p \in Procs :
        LET o == loc[p].order IN
        (/\ pc[p] = "verifying"
         /\ pc'[p] = "idle"
         /\ orders[o].status = PENDING_PAYMENT)
            => IF last'.locals.code \in {Some(100), Some(101)}
               THEN /\ orders'[o].status = PAID
                    /\ orders'[o].paid_at # None
                    /\ orders'[o].payment_ref_id = last'.locals.ref_id
                    /\ orders'[o].payment_session_id = loc[p].authority
               ELSE /\ orders'[o].status = PENDING_PAYMENT
                    /\ orders'[o].payment_session_id = ""]_vars

\* C7: a success callback that arrives for an order that is PAID returns at
\* once: it never goes on to the verify transaction, it makes no gateway
\* call, appends nothing to the ledger and leaves every order as it was.
C7_VerifyIdempotentOnPaid ==
    [][/\ \A p \in Procs :
            (pc[p] = "idle" /\ pc'[p] = "verify_wait")
                => orders[loc'[p].order].status # PAID
       /\ (/\ CallbackReturnsAtOnce
           /\ last'.locals.status = "OK"
           /\ last'.locals.order \in Orders
           /\ orders[last'.locals.order].status = PAID)
            => /\ orders' = orders
               /\ attempts' = attempts
               /\ gwRequests' = gwRequests
               /\ gwVerifies' = gwVerifies]_vars

\* C7 witness: the callback that returned last carried the success flag for
\* an order that was PAID and returned on the test for PAID; no verify call
\* was made for the order beyond the one that paid it.
C7_Witness ==
    /\ last.locals.view = "zarinpal_callback"
    /\ last.locals.status = "OK"
    /\ last.resp.br = "paid"
    /\ last.locals.order \in Orders
    /\ orders[last.locals.order].status = PAID
    /\ gwVerifies[last.locals.order] = 1

C9_SentinelResolved ==
    [][\A p \in Procs :
        (pc[p] \in {"requesting", "saving"} /\ pc'[p] = "idle")
            => orders'[loc[p].order].payment_session_id # LOCK_SENTINEL]_vars

\* C10: no worker holds the row lock of an order while its gateway call,
\* the payment request or the payment verify, is executing.
C10_NoLockDuringGatewayCall ==
    \A p \in Procs :
        pc[p] \in {"requesting", "verifying"}
            => \A o \in Orders : lock[o] # p

\* a step in which start_payment of worker p leaves the first transaction
\* for an order that awaits payment with an empty token: the one case in
\* which it would go on to call the gateway
StartWouldRequest(p) ==
    /\ pc[p] = "start_wait"
    /\ pc'[p] # "start_wait"
    /\ loc[p].order \in Orders
    /\ orders[loc[p].order].status = PENDING_PAYMENT
    /\ orders[loc[p].order].payment_session_id = ""

\* a step in which a success callback for an order that is not PAID returns
\* at once: the one case in which it would go on to verify
CallbackWouldVerify ==
    /\ CallbackReturnsAtOnce
    /\ last'.locals.status = "OK"
    /\ last'.locals.order \in Orders
    /\ orders[last'.locals.order].status # PAID

\* C11 (as stated): with the merchant id missing, initiate and verify abort
\* before any gateway call, answer 500 and leave the token of the order empty.
C11_MisconfiguredLeavesTokenEmpty ==
    [][/\ \A p \in Procs :
            (StartWouldRequest(p) /\ ~merchant_id)
                => /\ pc'[p] = "idle"
                   /\ last'.resp.http = 500
                   /\ gwRequests' = gwRequests
                   /\ orders'[loc[p].order].payment_session_id = ""
       /\ \A p \in Procs : (pc[p] = "idle" /\ pc'[p] = "verify_wait") => merchant_id
       /\ (CallbackWouldVerify /\ ~merchant_id)
            => /\ last'.resp.http = 500
               /\ gwVerifies' = gwVerifies
               /\ orders'[last'.locals.order].payment_session_id = ""]_vars

\* C11 (amended): with the merchant id missing, initiate aborts before any
\* gateway call, answers 500 and leaves the token of the order empty; verify
\* aborts before any gateway call, answers 500 and leaves the order as it
\* was, token included.
C11_MisconfiguredAborts ==
    [][/\ \A p \in Procs :
            (StartWouldRequest(p) /\ ~merchant_id)
                => /\ pc'[p] = "idle"
                   /\ last'.resp.http = 500
                   /\ gwRequests' = gwRequests
                   /\ orders'[loc[p].order].payment_session_id = ""
       /\ \A p \in Procs : (pc[p] = "idle" /\ pc'[p] = "verify_wait") => merchant_id
       /\ (CallbackWouldVerify /\ ~merchant_id)
            => /\ last'.resp.http = 500
               /\ gwVerifies' = gwVerifies
               /\ orders' = orders
               /\ attempts' = attempts]_vars

\* C11 witness: the merchant id is missing and the callback that returned
\* last carried the success flag for an order that awaits payment with a
\* real token; it answered 500 and the order still holds the token.
C11_Witness ==
    /\ ~merchant_id
    /\ last.locals.view = "zarinpal_callback"
    /\ last.locals.status = "OK"
    /\ last.resp.http = 500
    /\ last.resp.br = "misconfigured"
    /\ last.locals.order \in Orders
    /\ orders[last.locals.order].status = PENDING_PAYMENT
    /\ RealToken(orders[last.locals.order].payment_session_id)

\* a step in which worker p returns from a handler that called the gateway
GatewayInteractionEnds(p) ==
    /\ pc[p] \in {"requesting", "saving", "verifying"}
    /\ pc'[p] = "idle"

\* C12: when a handler that called the gateway returns, it has appended
\* exactly one attempt for its order, of the stage of its call; and whether
\* or not the attempt could be written, the handler answers as the gateway
\* outcome decides, never with a 500.
C12_OneAttemptPerInteraction ==
    [][\A p \in Procs :
        LET o == loc[p].order IN
        GatewayInteractionEnds(p)
            => /\ Len(attempts') = Len(attempts) + 1
               /\ attempts'[Len(attempts')].order = o
               /\ attempts'[Len(attempts')].stage =
                     (IF pc[p] = "verifying" THEN "VERIFY" ELSE "REQUEST")
               /\ last'.resp.http # 500]_vars

\* the order a callback with locals l is to resolve to when an order hint
\* that names an existing order wins over the ledger and the token
ResolveWithHint(l) ==
    IF l.hint \in Orders THEN l.hint ELSE ResolveOrder(l.authority)

\* C13: a callback that carries an authority resolves its order first by
\* the order hint, if it names an existing order, else by the most recent
\* REQUEST attempt with the authority, else by the order created last among
\* those whose token is the authority, else to none.
C13_ResolutionOrder ==
    [][/\ (CallbackReturnsAtOnce /\ last'.locals.authority # "")
            => last'.locals.order = ResolveWithHint(last'.locals)
       /\ \A p \in Procs :
            (pc[p] = "idle" /\ pc'[p] \in {"cancel_wait", "verify_wait"})
                => loc'[p].order = ResolveWithHint(loc'[p])]_vars

\* authority a is that of some REQUEST attempt or the token of some order
Matches(a) ==
    \/ \E i \in 1..Len(attempts) :
          attempts[i].stage = "REQUEST" /\ attempts[i].authority = a
    \/ \E o \in Orders : orders[o].payment_session_id = a

\* C14: a callback whose authority matches no REQUEST attempt and no order's
\* token is redirected to the landing page (no error response), never goes
\* on to a cancel or verify transaction, makes no gateway call and changes
\* no order and no attempt.
C14_UnresolvedCallback ==
    [][/\ (/\ CallbackReturnsAtOnce
           /\ last'.locals.authority # ""
           /\ ~Matches(last'.locals.authority))
            => /\ last'.resp.http = 302
               /\ last'.resp.to = "products"
               /\ orders' = orders
               /\ attempts' = attempts
               /\ gwRequests' = gwRequests
               /\ gwVerifies' = gwVerifies
       /\ \A p \in Procs :
            (pc[p] = "idle" /\ pc'[p] \in {"cancel_wait", "verify_wait"})
                => Matches(loc'[p].authority)]_vars

\* C14 witness: the callback that returned last carried an authority of the
\* gateway that matches nothing, while an order holds another real token,
\* and it was redirected to the landing page.
C14_Witness ==
    /\ last.locals.view = "zarinpal_callback"
    /\ last.locals.authority \in Authorities
    /\ ~Matches(last.locals.authority)
    /\ last.resp.http = 302
    /\ last.resp.to = "products"
    /\ \E o \in Orders : RealToken(orders[o].payment_session_id)

\* a step in which start_payment of worker p leaves its first transaction,
\* having read its order under the row lock
StartDecides(p) ==
    /\ pc[p] = "start_wait"
    /\ pc'[p] # "start_wait"
    /\ loc[p].order \in Orders

\* C15: start_payment on an order that is PAID redirects to the order view,
\* makes no gateway call and leaves every order and the ledger as they were,
\* whatever the token of the order is.
C15_InitiateOnPaid ==
    [][\A p \in Procs :
        (StartDecides(p) /\ orders[loc[p].order].status = PAID)
            => /\ pc'[p] = "idle"
               /\ last'.resp.http = 302
               /\ last'.resp.to = "order"
               /\ orders' = orders
               /\ attempts' = attempts
               /\ gwRequests' = gwRequests
               /\ gwVerifies' = gwVerifies]_vars

\* C15 witness: the start_payment that returned last was redirected to the
\* order view of an order that is PAID and holds a real token.
C15_Witness ==
    /\ last.locals.view = "start_payment"
    /\ last.locals.order \in Orders
    /\ last.resp.http = 302
    /\ last.resp.to = "order"
    /\ orders[last.locals.order].status = PAID
    /\ RealToken(orders[last.locals.order].payment_session_id)

\* C16: start_payment on an order that awaits payment with the sentinel as
\* its token answers 429, makes no gateway call and leaves every order as
\* it was.
C16_InitiateOnSentinel ==
    [][\A p \in Procs :
        (/\ StartDecides(p)
         /\ orders[loc[p].order].status = PENDING_PAYMENT
         /\ orders[loc[p].order].payment_session_id = LOCK_SENTINEL)
            => /\ pc'[p] = "idle"
               /\ last'.resp.http = 429
               /\ orders' = orders
               /\ attempts' = attempts
               /\ gwRequests' = gwRequests
               /\ gwVerifies' = gwVerifies]_vars

\* C16 witness: the start_payment that returned last got 429 for an order
\* that awaits payment and holds the sentinel, for which one request was made.
C16_Witness ==
    /\ last.locals.view = "start_payment"
    /\ last.locals.order \in Orders
    /\ last.resp.http = 429
    /\ last.resp.br = "in_progress"
    /\ orders[last.locals.order].status = PENDING_PAYMENT
    /\ orders[last.locals.order].payment_session_id = LOCK_SENTINEL
    /\ gwRequests[last.locals.order] = 1

\* C17: start_payment on an order that awaits payment with a real token
\* redirects to the gateway with that token, makes no gateway call and
\* leaves every order as it was, at every repetition.
C17_InitiateReusesToken ==
    [][\A p \in Procs :
        (/\ StartDecides(p)
         /\ orders[loc[p].order].status = PENDING_PAYMENT
         /\ RealToken(orders[loc[p].order].payment_session_id))
            => /\ pc'[p] = "idle"
               /\ last'.resp.http = 302
               /\ last'.resp.to = "startpay"
               /\ last'.resp.tok = orders[loc[p].order].payment_session_id
               /\ orders' = orders
               /\ attempts' = attempts
               /\ gwRequests' = gwRequests
               /\ gwVerifies' = gwVerifies]_vars

\* C17 witness: three requests have been handled, one gateway request was
\* made for the order, and the start_payment that returned last was sent
\* to the gateway with the token the order holds.
C17_Witness ==
    /\ calls = 3
    /\ \A p \in Procs : pc[p] = "idle"
    /\ last.locals.view = "start_payment"
    /\ last.locals.order \in Orders
    /\ last.resp.br = "reuse"
    /\ last.resp.tok = orders[last.locals.order].payment_session_id
    /\ RealToken(orders[last.locals.order].payment_session_id)
    /\ gwRequests[last.locals.order] = 1
    /\ Len(attempts) = 1

\* ---------------------------------------------------------------------
\* The amount normalizer alone: a currency setting and an order total are
\* drawn, and the payload's currency and amount are computed from them.
InitAmount ==
    /\ orders = [o \in Orders |-> NewOrder]
    /\ attempts = <<>>
    /\ lock = [o \in Orders |-> Free]
    /\ pc = [p \in Procs |-> "idle"]
    /\ loc = [p \in Procs |-> NoLocals]
    /\ last = NoReturn
    /\ merchant_id = TRUE
    /\ calls = 0
    /\ issued = 0
    /\ gwRequests = [o \in Orders |-> 0]
    /\ gwVerifies = [o \in Orders |-> 0]
    /\ \E s \in CurrencySettings, a \in 0..MaxAmount :
          payload = [NoPayload EXCEPT !.setting = s, !.total_irr = a]

\* currency = _gateway_currency(); amount = _amount_for_gateway(o.total_irr)
BuildPayload ==
    /\ payload.amount = None
    /\ payload' = [payload EXCEPT
                      !.currency = _gateway_currency(payload.setting),
                      !.amount = Some(_amount_for_gateway(payload.total_irr, payload.setting))]
    /\ UNCHANGED <<orders, attempts, lock, pc, loc, last, merchant_id, calls, issued,
                   gwRequests, gwVerifies>>

SpecAmount == InitAmount /\ [][BuildPayload]_vars

\* C18: for every amount a >= 0, with the scaled unit (IRT) the normalizer
\* returns n with n * 10 >= a and n * 10 - a < 10, and with any other unit
\* it returns a.
C18_CeilingDivision ==
    payload.amount # None
        => LET a == payload.total_irr
               n == payload.amount[1] IN
           IF payload.currency = "IRT"
           THEN n * 10 >= a /\ n * 10 - a < 10
           ELSE n = a

\* C18 witness: an amount that is no multiple of 10 was normalized to the
\* scaled unit from a setting that needed upper() and strip(), and rounded up.
C18_Witness ==
    /\ payload.setting = Some(" irt ")
    /\ payload.currency = "IRT"
    /\ payload.total_irr = 11
    /\ payload.amount = Some(2)

\* C19: when a start_payment that called the gateway returns, the token of
\* its order is the authority the gateway issued and the caller is sent to
\* the gateway with it if the request succeeded (code 100 and an authority);
\* after every other outcome the token is empty, the status is as it was and
\* the response is no redirect to the gateway.
C19_RequestOutcome ==
    [][\A p \in Procs :
        LET o == loc[p].order
            code == last'.locals.code
            authority == last'.locals.authority IN
        (pc[p] \in {"requesting", "saving"} /\ pc'[p] = "idle")
            => /\ orders'[o].status = orders[o].status
               /\ IF code = Some(100) /\ authority # ""
                  THEN /\ orders'[o].payment_session_id = authority
                       /\ last'.resp.to = "startpay"
                       /\ last'.resp.tok = authority
                  ELSE /\ orders'[o].payment_session_id = ""
                       /\ last'.resp.to # "startpay"]_vars

\* C20: the payment reference of an order is set only by a verify that the
\* gateway answered with code 100 or 101, and once set it never changes.
C20_ReferenceImmutable ==
    [][\A o \in Orders :
        /\ orders[o].payment_ref_id # None
            => orders'[o].payment_ref_id = orders[o].payment_ref_id
        /\ orders'[o].payment_ref_id # orders[o].payment_ref_id
            => \E p \in Procs :
                  /\ pc[p] = "verifying"
                  /\ pc'[p] = "idle"
                  /\ loc[p].order = o
                  /\ last'.locals.code \in {Some(100), Some(101)}]_vars

\* the REQUEST attempts of order o that record a successful gateway request
RequestSuccesses(o) ==
    {i \in 1..Len(attempts) :
        /\ attempts[i].order = o
        /\ attempts[i].stage = "REQUEST"
        /\ attempts[i].code = Some(100)
        /\ attempts[i].authority # ""}

\* C21: the payment_provider of an order is empty unless a gateway payment
\* request for the order has succeeded.
C21_ProviderOnlyAfterSuccess ==
    \A o \in Orders :
        orders[o].payment_provider # "" => RequestSuccesses(o) # {}

\* C22: once an order is PAID, no step of start_payment or zarinpal_callback
\* changes its status or its payment_session_id.
C22_PaidIsFrozen ==
    [][\A o \in Orders :
        orders[o].status = PAID
            => /\ orders'[o].status = PAID
               /\ orders'[o].payment_session_id = orders[o].payment_session_id]_vars

\* worker p is in the cancel or the verify transaction of a callback whose
\* authority was resolved through a REQUEST attempt of the order and is not
\* the order's current payment_session_id
StaleCallback(p) ==
    /\ pc[p] \in {"cancel_wait", "verifying"}
    /\ loc[p].order \in Orders
    /\ \E i \in RequestAttempts(loc[p].authority) :
            attempts[i].order = loc[p].order
    /\ orders[loc[p].order].payment_session_id # loc[p].authority

\* C23: the transaction of a callback whose authority is a stale token,
\* resolved through the attempt ledger and different from the order's
\* current payment_session_id, changes neither the order's
\* payment_session_id nor its status.
C23_StaleCallbackChangesNothing ==
    [][\A p \in Procs :
        (StaleCallback(p) /\ pc'[p] = "idle")
            => LET o == loc[p].order IN
               /\ orders'[o].payment_session_id = orders[o].payment_session_id
               /\ orders'[o].status = orders[o].status]_vars

====
